---- MODULE Spec2Model ----
(***************************************************************************)
(* scrollrun: a command's stdout/stderr (or standard input) is read by     *)
(* Line Readers into one mpsc channel and redrawn by the render loop       *)
(* `print` as a bounded window.  Model of src/src/main.rs.                 *)
(*                                                                         *)
(* Bytes are numbers (u8); a line is a sequence of bytes.  The terminal    *)
(* output of `print` is kept as: the lines of the last frame drawn, the    *)
(* set of lines ever drawn, the number of footers, and the kind of the     *)
(* last write, and the elapsed-time text last written as a sequence of     *)
(* characters.  The terminal is not resized during a run.                  *)
(***************************************************************************)
EXTENDS Integers, Sequences, FiniteSets

VARIABLES
    mode,          \* "command" (opt.command is Some), "pipe" (stdin is not a terminal), "tty";
                   \* "test" in the runs of test::lines_with_errors
    opt_num_lines, \* Opt.num_lines: Option<usize>
    termRows,      \* termsize::get(): Option of the terminal's row count
    CALLED,        \* static CALLED: AtomicU8
    ROWS,          \* static ROWS: AtomicU16
    pipe,          \* per stream: the bytes its reader has not read yet (written or still to come)
    closed,        \* per stream: the write end is closed
    child,         \* "none", "running", "exited"
    mainPc,        \* position of main
    status,        \* main's local `status` (child.wait())
    exitCode,      \* Option: the ExitCode main returned
    readerPc,      \* per stream: "idle", "running", "done", "panicked"
    chan,          \* the mpsc channel's queue
    senders,       \* number of live Sender handles
    rxAlive,       \* the Receiver has not been dropped
    printPc,       \* "idle", "top", "drain", "recv", "done", "panicked"
    num_lines,     \* print's local num_lines
    output_lines,  \* print's VecDeque
    has_ended,     \* print's flag
    frame,         \* Option: the lines between the borders of the last frame drawn
    shown,         \* the set of lines drawn in some frame
    footers,       \* number of "Finished in" footers written
    lastWrite,     \* "none", "frame", "footer"
    \* history of the run, read by the properties only
    input,         \* per stream: the lines L1..Ln its byte stream was made of, with their terminators
    sent,          \* per stream: the lines its reader has sent, in order
    delivered,     \* the lines sent into the channel, in arrival order
    appended,      \* the lines pushed onto output_lines, in order
    preloaded,     \* every line was queued and the channel closed before the first tick
    ticksAfterClose, \* loop iterations begun with the channel closed and drained
    receivedAtDraw, \* how many lines had been pushed onto output_lines at the last draw
    windowAtDraw,  \* how many lines output_lines held at the last draw
    \* the clock and what print wrote of it
    elapsed,       \* start.elapsed().as_secs(); a run sees one clock reading (it is short)
    stamp          \* Option: the text of the last "Elapsed time:" / "Finished in:" written

vars == <<mode, opt_num_lines, termRows, CALLED, ROWS, pipe, closed, child,
          mainPc, status, exitCode, readerPc, chan, senders, rxAlive,
          printPc, num_lines, output_lines, has_ended, frame, shown, footers,
          lastWrite, input, sent, delivered, appended, preloaded, ticksAfterClose,
          receivedAtDraw, windowAtDraw, elapsed, stamp>>

----------------------------------------------------------------------------
(* Bounds of the model *)

\* most lines on stdout and on stdin
MaxLines == 2
\* most lines on stderr
MaxErrLines == 1
\* largest explicit --num-lines
MaxCap == 2
\* most lines a stream carries in the runs of FairSpec
MaxFairLines == 1
\* the clock readings cover every second of the first MaxDays + 1 days
MaxDays == 1
\* the smaller terminals every terminal is compared with, up to this many rows
MaxSmallRows == 40

----------------------------------------------------------------------------
(* Values *)

None == [some |-> FALSE, val |-> 0]
Some(v) == [some |-> TRUE, val |-> v]
NoFrame == [some |-> FALSE, val |-> <<>>]

LF == 10
CR == 13
U8Max == 255
U16Max == 65535
\* a byte that no UTF-8 text holds (0xFF): a line with it fails to decode
InvalidByte == 255
DefaultNumLines == 10

Streams == {"stdout", "stderr", "stdin"}
StreamsOf(m) == IF m = "command" THEN {"stdout", "stderr"}
                ELSE IF m = "pipe" THEN {"stdin"} ELSE {}

Min(a, b) == IF a < b THEN a ELSE b
Max(a, b) == IF a > b THEN a ELSE b
SatSub(a, b) == IF a > b THEN a - b ELSE 0

RECURSIVE Concat(_)
Concat(ss) == IF ss = <<>> THEN <<>> ELSE Head(ss) \o Concat(Tail(ss))

----------------------------------------------------------------------------
(* Pure functions of the program *)

\* the heuristic with wrapping_sub in place of saturating_sub
num_lines_heuristic_wrapping(rows) ==
    IF rows < 11
    THEN Max((rows - 4) % (U16Max + 1), 1)
    ELSE (rows - Max(rows \div 3, 5)) % (U16Max + 1)

\* num_lines_heuristic(rows: u16) -> u16
num_lines_heuristic(rows) ==
    IF rows < 11
    THEN Max(SatSub(rows, 4), 1)
    ELSE SatSub(rows, Max(rows \div 3, 5))

\* Opt::num_lines(&self): the value returned and the statics it leaves behind
OptNumLines(explicit, term, called, rows) ==
    IF explicit.some
    THEN [ret |-> explicit, called |-> called, rows |-> rows]
    ELSE IF called = 0 /\ ~term.some
    THEN [ret |-> None, called |-> called, rows |-> rows]
    ELSE LET r == IF called = 0 THEN term.val ELSE rows
         IN  [ret    |-> Some(num_lines_heuristic(r)),
              called |-> IF called = 10 THEN 0 ELSE (called + 1) % (U8Max + 1),
              rows   |-> r]

\* position of the first LF of bs, 0 when there is none
FirstLF(bs) ==
    IF \E i \in 1..Len(bs) : bs[i] = LF
    THEN CHOOSE i \in 1..Len(bs) : bs[i] = LF /\ \A j \in 1..(i - 1) : bs[j] # LF
    ELSE 0

\* what read_until(b'\n') takes from bs: through the first LF, or all of it
ReadUntilLF(bs) == IF FirstLF(bs) = 0 THEN bs ELSE SubSeq(bs, 1, FirstLF(bs))

\* a line split that removes the "\n" and leaves a "\r" before it
StripNewlineOnly(buf) ==
    IF buf # <<>> /\ buf[Len(buf)] = LF THEN SubSeq(buf, 1, Len(buf) - 1) ELSE buf

\* BufRead::lines: a trailing "\n" is removed, and then a trailing "\r"
StripTerminator(buf) ==
    IF buf # <<>> /\ buf[Len(buf)] = LF
    THEN LET a == SubSeq(buf, 1, Len(buf) - 1)
         IN  IF a # <<>> /\ a[Len(a)] = CR THEN SubSeq(a, 1, Len(a) - 1) ELSE a
    ELSE buf

\* String::from_utf8 succeeds on the bytes of buf
Utf8(buf) == \A i \in 1..Len(buf) : buf[i] # InvalidByte

\* ExitStatus::success()
Success(code) == code.some /\ code.val = 0

\* the exit code cast to u8 (i as u8) instead of u8::try_from(i).ok()
ExitCodeTruncated(st) ==
    IF st.code.some THEN st.code.val % (U8Max + 1)
    ELSE IF st.success THEN 0 ELSE 1

\* status.code().and_then(|i| u8::try_from(i).ok()).map(ExitCode::from)
\*       .unwrap_or(if status.success() { SUCCESS } else { FAILURE })
ExitCodeOf(st) ==
    IF st.code.some /\ st.code.val >= 0 /\ st.code.val <= U8Max
    THEN st.code.val
    ELSE IF st.success THEN 0 ELSE 1

\* the decimal digit d as a character
Digit(d) == <<"0", "1", "2", "3", "4", "5", "6", "7", "8", "9">>[d + 1]

\* {n}: the decimal text of an unsigned integer
RECURSIVE Decimal(_)
Decimal(n) == IF n < 10 THEN <<Digit(n)>> ELSE Decimal(n \div 10) \o <<Digit(n % 10)>>

\* {n} in place of {n:02}: no padding
Unpadded(n) == Decimal(n)

\* {n:02}: the decimal text, zero-padded on the left to a width of 2
Pad2(n) == IF Len(Decimal(n)) < 2 THEN <<"0">> \o Decimal(n) ELSE Decimal(n)

\* impl fmt::Display for Format: the text written for a duration of secs seconds
Format(secs) ==
    LET seconds == secs % 60
        t1      == secs \div 60
        minutes == t1 % 60
        t2      == t1 \div 60
        hours   == t2 % 24
        t3      == t2 \div 24
        hms     == Pad2(hours) \o <<":">> \o Pad2(minutes) \o <<":">> \o Pad2(seconds)
    IN  IF t3 > 0 THEN Decimal(t3) \o <<"d", " ">> \o hms ELSE hms

\* a draw of the whole window (no .take(num_lines))
TakeAll(w, n) == w

\* a draw that takes the n newest lines of the window instead of its first n
TakeMostRecent(w, n) == SubSeq(w, Len(w) - Min(n, Len(w)) + 1, Len(w))

\* output_lines.iter().take(n)
Take(w, n) == SubSeq(w, 1, Min(n, Len(w)))

\* an eviction that pops one line (if in place of while)
EvictOnce(w, n) == IF Len(w) > n THEN Tail(w) ELSE w

\* an eviction that runs while len >= n and so leaves one line less
EvictOneMore(w, n) == IF Len(w) >= n /\ n > 0 THEN SubSeq(w, Len(w) - n + 2, Len(w)) ELSE w

\* while output_lines.len() > n { output_lines.pop_front(); }
Evict(w, n) == IF Len(w) > n THEN SubSeq(w, Len(w) - n + 1, Len(w)) ELSE w

Range(f) == {f[i] : i \in DOMAIN f}

----------------------------------------------------------------------------
(* Inputs *)

\* line contents of a piped input: an empty line, a line with a CR inside it
PipeContents == {<<>>, <<CR, 97>>}
Terminated == {[content |-> c, term |-> t] : c \in PipeContents, t \in {<<LF>>, <<CR, LF>>}}
Unterminated == {[content |-> c, term |-> <<>>] : c \in PipeContents \ {<<>>}}

\* L1..Ln, each with its terminator; only the last may lack one
PipeInputs ==
    UNION {{s \in [1..n -> Terminated \cup Unterminated] :
                \A i \in 1..(n - 1) : s[i].term # <<>>} : n \in 0..MaxLines}

\* piped inputs with a line that is not UTF-8: alone, and between two lines
UndecodableLine == [content |-> <<InvalidByte>>, term |-> <<LF>>]
BadInputs ==
    {<<UndecodableLine>>,
     <<[content |-> <<CR, 97>>, term |-> <<LF>>], UndecodableLine,
       [content |-> <<>>, term |-> <<LF>>]>>}

\* the child's output: n distinct lines; stdout ends lines with "\n", stderr with "\r\n"
ChildInput(s, n) ==
    [i \in 1..n |-> [content |-> <<(IF s = "stdout" THEN 100 ELSE 200) + i>>,
                     term    |-> IF s = "stdout" THEN <<LF>> ELSE <<CR, LF>>]]

BytesOf(ls) == Concat([i \in 1..Len(ls) |-> ls[i].content \o ls[i].term])
LinesOf(ls) == [i \in 1..Len(ls) |-> ls[i].content]

\* the child's exit statuses: killed by a signal, codes inside and outside 0..=255
StatusSet ==
    {[code |-> c, success |-> Success(c)] : c \in {None, Some(0), Some(3), Some(U8Max + 1)}}

\* --num-lines given, or not given and no terminal to derive it from
CapChoices == {<<Some(c), None>> : c \in 0..MaxCap} \cup {<<None, None>>}

InputChoices(m) ==
    IF m = "command"
    THEN {[s \in Streams |-> IF s = "stdout" THEN ChildInput(s, no)
                             ELSE IF s = "stderr" THEN ChildInput(s, ne) ELSE <<>>] :
             no \in 0..MaxLines, ne \in 0..MaxErrLines}
    ELSE IF m = "pipe"
    THEN {[s \in Streams |-> IF s = "stdin" THEN inp ELSE <<>>] :
             inp \in PipeInputs \cup BadInputs}
    ELSE {[s \in Streams |-> <<>>]}

Init ==
    /\ mode \in {"command", "pipe", "tty"}
    /\ \E cap \in CapChoices : opt_num_lines = cap[1] /\ termRows = cap[2]
    /\ CALLED = 0
    /\ ROWS = 0
    /\ \E inp \in InputChoices(mode) :
          /\ input = inp
          /\ pipe = [s \in Streams |-> BytesOf(inp[s])]
    /\ closed = [s \in Streams |-> FALSE]
    /\ child = "none"
    /\ mainPc = "start"
    /\ status = [code |-> None, success |-> FALSE]
    /\ exitCode = None
    /\ readerPc = [s \in Streams |-> "idle"]
    /\ chan = <<>>
    /\ senders = 1
    /\ rxAlive = TRUE
    /\ printPc = "idle"
    /\ num_lines = 0
    /\ output_lines = <<>>
    /\ has_ended = FALSE
    /\ frame = NoFrame
    /\ shown = {}
    /\ footers = 0
    /\ lastWrite = "none"
    /\ sent = [s \in Streams |-> <<>>]
    /\ delivered = <<>>
    /\ appended = <<>>
    /\ preloaded = FALSE
    /\ ticksAfterClose = 0
    /\ receivedAtDraw = 0
    /\ windowAtDraw = 0
    /\ elapsed = 0
    /\ stamp = NoFrame

----------------------------------------------------------------------------
(* The writers of the streams: the child process, or whatever feeds stdin *)

WriterAlive(s) == IF s = "stdin" THEN mode = "pipe" ELSE child = "running"

\* the writer closes its end of the pipe: the stream ends after the bytes of pipe[s]
CloseStream(s) ==
    /\ WriterAlive(s)
    /\ ~closed[s]
    /\ closed' = [closed EXCEPT ![s] = TRUE]
    /\ UNCHANGED <<mode, elapsed, stamp, receivedAtDraw, windowAtDraw,
                   opt_num_lines, termRows, CALLED, ROWS, pipe, child,
                   mainPc, status, exitCode, readerPc, chan, senders, rxAlive, printPc,
                   num_lines, output_lines, has_ended, frame, shown, footers,
                   lastWrite, input, sent, delivered, appended, preloaded, ticksAfterClose>>

\* the child exits; the OS closes the pipe ends it still holds
ChildExit ==
    /\ child = "running"
    /\ child' = "exited"
    /\ closed' = [s \in Streams |-> closed[s] \/ s \in StreamsOf(mode)]
    /\ UNCHANGED <<mode, elapsed, stamp, receivedAtDraw, windowAtDraw,
                   opt_num_lines, termRows, CALLED, ROWS, pipe,
                   mainPc, status, exitCode, readerPc, chan, senders, rxAlive, printPc,
                   num_lines, output_lines, has_ended, frame, shown, footers,
                   lastWrite, input, sent, delivered, appended, preloaded, ticksAfterClose>>

----------------------------------------------------------------------------
(* read(reader, tx) *)

\* a whole line is in the pipe, or the rest of a closed pipe is an unterminated line
LineReady(s) == FirstLF(pipe[s]) # 0 \/ (closed[s] /\ pipe[s] # <<>>)

\* dropping one Sender
DropSender(n) == n - 1

\* Ok(line) => tx.send(line).unwrap()
ReaderSend(s) ==
    /\ readerPc[s] = "running"
    /\ LineReady(s)
    /\ Utf8(ReadUntilLF(pipe[s]))
    /\ LET buf  == ReadUntilLF(pipe[s])
           line == StripTerminator(buf)
       IN  /\ pipe' = [pipe EXCEPT ![s] = SubSeq(@, Len(buf) + 1, Len(@))]
           /\ IF rxAlive
              THEN /\ chan' = Append(chan, line)
                   /\ sent' = [sent EXCEPT ![s] = Append(@, line)]
                   /\ delivered' = Append(delivered, line)
                   /\ UNCHANGED <<readerPc, senders>>
              ELSE /\ readerPc' = [readerPc EXCEPT ![s] = "panicked"]
                   /\ senders' = DropSender(senders)
                   /\ UNCHANGED <<chan, sent, delivered>>
    /\ UNCHANGED <<mode, elapsed, stamp, receivedAtDraw, windowAtDraw,
                   opt_num_lines, termRows, CALLED, ROWS, closed, child,
                   mainPc, status, exitCode, rxAlive, printPc, num_lines,
                   output_lines, has_ended, frame, shown, footers, lastWrite,
                   input, appended, preloaded, ticksAfterClose>>

\* a reader that skips a line it cannot decode (Err(_) => continue)
ReaderErrorContinues(s) ==
    /\ readerPc[s] = "running"
    /\ LineReady(s)
    /\ ~Utf8(ReadUntilLF(pipe[s]))
    /\ pipe' = [pipe EXCEPT ![s] = SubSeq(@, Len(ReadUntilLF(@)) + 1, Len(@))]
    /\ UNCHANGED <<mode, elapsed, stamp, receivedAtDraw, windowAtDraw,
                   opt_num_lines, termRows, CALLED, ROWS, closed, readerPc, senders,
                   child, mainPc, status, exitCode, chan, rxAlive, printPc, num_lines,
                   output_lines, has_ended, frame, shown, footers, lastWrite,
                   input, sent, delivered, appended, preloaded, ticksAfterClose>>

\* Err(_) => break: the bytes of the line were taken from the stream but are
\* not UTF-8; read returns without reading further and tx is dropped
ReaderError(s) ==
    /\ readerPc[s] = "running"
    /\ LineReady(s)
    /\ ~Utf8(ReadUntilLF(pipe[s]))
    /\ pipe' = [pipe EXCEPT ![s] = SubSeq(@, Len(ReadUntilLF(@)) + 1, Len(@))]
    /\ readerPc' = [readerPc EXCEPT ![s] = "done"]
    /\ senders' = DropSender(senders)
    /\ UNCHANGED <<mode, elapsed, stamp, receivedAtDraw, windowAtDraw,
                   opt_num_lines, termRows, CALLED, ROWS, closed,
                   child, mainPc, status, exitCode, chan, rxAlive, printPc, num_lines,
                   output_lines, has_ended, frame, shown, footers, lastWrite,
                   input, sent, delivered, appended, preloaded, ticksAfterClose>>

\* lines() returns None at end of stream: read returns and tx is dropped
ReaderEof(s) ==
    /\ readerPc[s] = "running"
    /\ closed[s]
    /\ pipe[s] = <<>>
    /\ readerPc' = [readerPc EXCEPT ![s] = "done"]
    /\ senders' = DropSender(senders)
    /\ UNCHANGED <<mode, elapsed, stamp, receivedAtDraw, windowAtDraw,
                   opt_num_lines, termRows, CALLED, ROWS, pipe, closed,
                   child, mainPc, status, exitCode, chan, rxAlive, printPc, num_lines,
                   output_lines, has_ended, frame, shown, footers, lastWrite,
                   input, sent, delivered, appended, preloaded, ticksAfterClose>>

----------------------------------------------------------------------------
(* print(writer, rx, opt) *)

\* output_lines.push_front(line) in place of push_back
PushFront(w, line) == <<line>> \o w

\* output_lines.push_back(line)
PushBack(w, line) == Append(w, line)

\* has_ended = false written before the eviction loop instead of inside it
HasEndedAlwaysReset(w, n, ended) == FALSE

\* the eviction loop sets has_ended = false whenever it pops a line
HasEndedAfterEvict(w, n, ended) == IF Len(w) > n THEN FALSE ELSE ended

\* top of the loop: let num_lines = opt.num_lines().unwrap_or(10)
PrintTop ==
    /\ printPc = "top"
    /\ LET r == OptNumLines(opt_num_lines, termRows, CALLED, ROWS)
       IN  /\ num_lines' = IF r.ret.some THEN r.ret.val ELSE DefaultNumLines
           /\ CALLED' = r.called
           /\ ROWS' = r.rows
    /\ printPc' = "drain"
    /\ preloaded' = IF lastWrite = "none" THEN senders = 0 ELSE preloaded
    /\ ticksAfterClose' = IF senders = 0 /\ chan = <<>>
                          THEN ticksAfterClose + 1 ELSE ticksAfterClose
    /\ UNCHANGED <<mode, elapsed, stamp, receivedAtDraw, windowAtDraw,
                   opt_num_lines, termRows, pipe, closed, child, mainPc,
                   status, exitCode, readerPc, chan, senders, rxAlive, output_lines,
                   has_ended, frame, shown, footers, lastWrite, input, sent, delivered,
                   appended>>

\* while let Ok(line) = rx.try_recv() { output_lines.push_back(line) }: one line
PrintTryRecvOk ==
    /\ printPc = "drain"
    /\ chan # <<>>
    /\ output_lines' = PushBack(output_lines, Head(chan))
    /\ appended' = Append(appended, Head(chan))
    /\ chan' = Tail(chan)
    /\ UNCHANGED <<mode, elapsed, stamp, receivedAtDraw, windowAtDraw,
                   opt_num_lines, termRows, CALLED, ROWS, pipe, closed,
                   child, mainPc, status, exitCode, readerPc, senders, rxAlive,
                   printPc, num_lines, has_ended, frame, shown, footers, lastWrite,
                   input, sent, delivered, preloaded, ticksAfterClose>>

\* try_recv finds nothing: the frame is drawn, then the window is evicted
PrintDraw ==
    /\ printPc = "drain"
    /\ chan = <<>>
    /\ frame' = Some(Take(output_lines, num_lines))
    /\ shown' = shown \cup Range(Take(output_lines, num_lines))
    /\ lastWrite' = "frame"
    /\ output_lines' = Evict(output_lines, num_lines)
    /\ has_ended' = HasEndedAfterEvict(output_lines, num_lines, has_ended)
    /\ printPc' = "recv"
    /\ stamp' = Some(Format(elapsed))
    /\ receivedAtDraw' = Len(appended)
    /\ windowAtDraw' = Len(output_lines)
    /\ UNCHANGED <<mode, elapsed,
                   opt_num_lines, termRows, CALLED, ROWS, pipe, closed,
                   child, mainPc, status, exitCode, readerPc, chan, senders, rxAlive,
                   num_lines, footers, input, sent, delivered, appended, preloaded,
                   ticksAfterClose>>

\* a timed receive whose line is thrown away (Ok(_) => {})
PrintRecvOkDropsLine ==
    /\ printPc = "recv"
    /\ chan # <<>>
    /\ chan' = Tail(chan)
    /\ printPc' = "top"
    /\ UNCHANGED <<mode, elapsed, stamp, receivedAtDraw, windowAtDraw,
                   opt_num_lines, termRows, CALLED, ROWS, pipe, closed,
                   child, mainPc, status, exitCode, readerPc, senders, rxAlive,
                   num_lines, output_lines, has_ended, frame, shown, footers,
                   lastWrite, input, sent, delivered, appended, preloaded,
                   ticksAfterClose>>

\* rx.recv_timeout(DELAY) = Ok(line); then thread::sleep(DELAY)
PrintRecvOk ==
    /\ printPc = "recv"
    /\ chan # <<>>
    /\ output_lines' = PushBack(output_lines, Head(chan))
    /\ appended' = Append(appended, Head(chan))
    /\ chan' = Tail(chan)
    /\ printPc' = "top"
    /\ UNCHANGED <<mode, elapsed, stamp, receivedAtDraw, windowAtDraw,
                   opt_num_lines, termRows, CALLED, ROWS, pipe, closed,
                   child, mainPc, status, exitCode, readerPc, senders, rxAlive,
                   num_lines, has_ended, frame, shown, footers, lastWrite,
                   input, sent, delivered, preloaded, ticksAfterClose>>

\* a render loop that takes a timeout for the end of the input and breaks
PrintRecvTimeoutBreaks ==
    /\ printPc = "recv"
    /\ chan = <<>>
    /\ senders > 0
    /\ footers' = footers + 1
    /\ lastWrite' = "footer"
    /\ printPc' = "done"
    /\ rxAlive' = FALSE
    /\ stamp' = Some(Format(elapsed))
    /\ UNCHANGED <<mode, elapsed, receivedAtDraw, windowAtDraw,
                   opt_num_lines, termRows, CALLED, ROWS, pipe, closed,
                   child, mainPc, status, exitCode, readerPc, chan, senders,
                   num_lines, output_lines, has_ended, frame, shown, input, sent,
                   delivered, appended, preloaded, ticksAfterClose>>

\* rx.recv_timeout(DELAY) = Err(Timeout) => continue
PrintRecvTimeout ==
    /\ printPc = "recv"
    /\ chan = <<>>
    /\ senders > 0
    /\ printPc' = "top"
    /\ UNCHANGED <<mode, elapsed, stamp, receivedAtDraw, windowAtDraw,
                   opt_num_lines, termRows, CALLED, ROWS, pipe, closed,
                   child, mainPc, status, exitCode, readerPc, chan, senders, rxAlive,
                   num_lines, output_lines, has_ended, frame, shown, footers,
                   lastWrite, input, sent, delivered, appended, preloaded, ticksAfterClose>>

\* a render loop that breaks on its first closed-and-empty observation
PrintRecvDisconnectedBreaksAtOnce ==
    /\ printPc = "recv"
    /\ chan = <<>>
    /\ senders = 0
    /\ footers' = footers + 1
    /\ lastWrite' = "footer"
    /\ printPc' = "done"
    /\ rxAlive' = FALSE
    /\ stamp' = Some(Format(elapsed))
    /\ UNCHANGED <<mode, elapsed, receivedAtDraw, windowAtDraw,
                   opt_num_lines, termRows, CALLED, ROWS, pipe, closed,
                   child, mainPc, status, exitCode, readerPc, chan, senders,
                   num_lines, output_lines, has_ended, frame, shown, input, sent,
                   delivered, appended, preloaded, ticksAfterClose>>

\* rx.recv_timeout(DELAY) = Err(Disconnected): break if has_ended, else set it;
\* after the loop the footer is written, print returns and rx is dropped
PrintRecvDisconnected ==
    /\ printPc = "recv"
    /\ chan = <<>>
    /\ senders = 0
    /\ IF has_ended
       THEN /\ footers' = footers + 1
            /\ lastWrite' = "footer"
            /\ printPc' = "done"
            /\ rxAlive' = FALSE
            /\ stamp' = Some(Format(elapsed))
            /\ UNCHANGED has_ended
       ELSE /\ has_ended' = TRUE
            /\ printPc' = "top"
            /\ UNCHANGED <<footers, lastWrite, rxAlive, stamp>>
    /\ UNCHANGED <<mode, elapsed, receivedAtDraw, windowAtDraw,
                   opt_num_lines, termRows, CALLED, ROWS, pipe, closed,
                   child, mainPc, status, exitCode, readerPc, chan, senders,
                   num_lines, output_lines, frame, shown, input, sent, delivered, appended,
                   preloaded, ticksAfterClose>>

\* a write to the terminal fails (stdout closed or full) while a frame or the
\* footer is written: write!(..).unwrap() panics, the thread unwinds and rx is
\* dropped
PrintWriteFails ==
    /\ \/ printPc = "drain" /\ chan = <<>>
       \/ printPc = "recv" /\ chan = <<>> /\ senders = 0 /\ has_ended
    /\ printPc' = "panicked"
    /\ rxAlive' = FALSE
    /\ UNCHANGED <<mode, elapsed, stamp, receivedAtDraw, windowAtDraw,
                   opt_num_lines, termRows, CALLED, ROWS, pipe, closed,
                   child, mainPc, status, exitCode, readerPc, chan, senders,
                   num_lines, output_lines, has_ended, frame, shown, footers,
                   lastWrite, input, sent, delivered, appended, preloaded,
                   ticksAfterClose>>

----------------------------------------------------------------------------
(* main *)

\* join() on the thread's handle returns: Ok when it returned, Err when it panicked
Finished(s) == readerPc[s] \in {"done", "panicked"}
PrintFinished == printPc \in {"done", "panicked"}

\* the child is spawned, then the two readers and the render loop; `sender` is
\* cloned for the stdout reader and moved into the stderr reader
MainSpawnCommand ==
    /\ mainPc = "start"
    /\ mode = "command"
    /\ child' = "running"
    /\ readerPc' = [s \in Streams |-> IF s \in StreamsOf(mode) THEN "running" ELSE readerPc[s]]
    /\ senders' = senders + 1
    /\ printPc' = "top"
    /\ mainPc' = "wait"
    /\ UNCHANGED <<mode, elapsed, stamp, receivedAtDraw, windowAtDraw,
                   opt_num_lines, termRows, CALLED, ROWS, pipe, closed,
                   status, exitCode, chan, rxAlive, num_lines, output_lines,
                   has_ended, frame, shown, footers, lastWrite, input, sent, delivered,
                   appended, preloaded, ticksAfterClose>>

\* let status = child.wait()?
MainWait ==
    /\ mainPc = "wait"
    /\ child = "exited"
    /\ \E st \in StatusSet : status' = st
    /\ mainPc' = "join_reader"
    /\ UNCHANGED <<mode, elapsed, stamp, receivedAtDraw, windowAtDraw,
                   opt_num_lines, termRows, CALLED, ROWS, pipe, closed,
                   child, exitCode, readerPc, chan, senders, rxAlive, printPc,
                   num_lines, output_lines, has_ended, frame, shown, footers,
                   lastWrite, input, sent, delivered, appended, preloaded, ticksAfterClose>>

\* let _ = stdout.join(): the handle named stdout is the stderr reader's
MainJoinReader ==
    /\ mainPc = "join_reader"
    /\ Finished("stderr")
    /\ mainPc' = "join_print"
    /\ UNCHANGED <<mode, elapsed, stamp, receivedAtDraw, windowAtDraw,
                   opt_num_lines, termRows, CALLED, ROWS, pipe, closed,
                   child, status, exitCode, readerPc, chan, senders, rxAlive, printPc,
                   num_lines, output_lines, has_ended, frame, shown, footers,
                   lastWrite, input, sent, delivered, appended, preloaded, ticksAfterClose>>

\* main returning the exit status without joining the render loop
MainReturnWithoutJoin ==
    /\ mainPc = "join_print"
    /\ mode = "command"
    /\ exitCode' = Some(ExitCodeOf(status))
    /\ mainPc' = "scope_end"
    /\ UNCHANGED <<mode, elapsed, stamp, receivedAtDraw, windowAtDraw,
                   opt_num_lines, termRows, CALLED, ROWS, pipe, closed,
                   child, status, readerPc, chan, senders, rxAlive, printPc,
                   num_lines, output_lines, has_ended, frame, shown, footers,
                   lastWrite, input, sent, delivered, appended, preloaded,
                   ticksAfterClose>>

\* let _ = stderr.join() (the render loop's handle); return Ok(<translated status>)
MainJoinPrintCommand ==
    /\ mainPc = "join_print"
    /\ mode = "command"
    /\ PrintFinished
    /\ exitCode' = Some(ExitCodeOf(status))
    /\ mainPc' = "scope_end"
    /\ UNCHANGED <<mode, elapsed, stamp, receivedAtDraw, windowAtDraw,
                   opt_num_lines, termRows, CALLED, ROWS, pipe, closed,
                   child, status, readerPc, chan, senders, rxAlive, printPc,
                   num_lines, output_lines, has_ended, frame, shown, footers,
                   lastWrite, input, sent, delivered, appended, preloaded, ticksAfterClose>>

\* pipe mode: one reader on stdin (sender moved into it) and the render loop
MainSpawnPipe ==
    /\ mainPc = "start"
    /\ mode = "pipe"
    /\ readerPc' = [s \in Streams |-> IF s \in StreamsOf(mode) THEN "running" ELSE readerPc[s]]
    /\ printPc' = "top"
    /\ mainPc' = "join_stdin"
    /\ UNCHANGED <<mode, elapsed, stamp, receivedAtDraw, windowAtDraw,
                   opt_num_lines, termRows, CALLED, ROWS, pipe, closed,
                   child, status, exitCode, chan, senders, rxAlive, num_lines,
                   output_lines, has_ended, frame, shown, footers, lastWrite,
                   input, sent, delivered, appended, preloaded, ticksAfterClose>>

\* let _ = stdin.join()
MainJoinStdin ==
    /\ mainPc = "join_stdin"
    /\ Finished("stdin")
    /\ mainPc' = "join_print"
    /\ UNCHANGED <<mode, elapsed, stamp, receivedAtDraw, windowAtDraw,
                   opt_num_lines, termRows, CALLED, ROWS, pipe, closed,
                   child, status, exitCode, readerPc, chan, senders, rxAlive, printPc,
                   num_lines, output_lines, has_ended, frame, shown, footers,
                   lastWrite, input, sent, delivered, appended, preloaded, ticksAfterClose>>

\* pipe mode returning SUCCESS without joining the render loop
MainPipeReturnWithoutJoin ==
    /\ mainPc = "join_print"
    /\ mode = "pipe"
    /\ exitCode' = Some(0)
    /\ mainPc' = "scope_end"
    /\ UNCHANGED <<mode, elapsed, stamp, receivedAtDraw, windowAtDraw,
                   opt_num_lines, termRows, CALLED, ROWS, pipe, closed,
                   child, status, readerPc, chan, senders, rxAlive, printPc,
                   num_lines, output_lines, has_ended, frame, shown, footers,
                   lastWrite, input, sent, delivered, appended, preloaded,
                   ticksAfterClose>>

\* h.join().map_err(..)?; Ok(ExitCode::SUCCESS): an Err returned by main is
\* exit code 1
MainJoinPrintPipe ==
    /\ mainPc = "join_print"
    /\ mode = "pipe"
    /\ PrintFinished
    /\ exitCode' = Some(IF printPc = "done" THEN 0 ELSE 1)
    /\ mainPc' = "scope_end"
    /\ UNCHANGED <<mode, elapsed, stamp, receivedAtDraw, windowAtDraw,
                   opt_num_lines, termRows, CALLED, ROWS, pipe, closed,
                   child, status, readerPc, chan, senders, rxAlive, printPc,
                   num_lines, output_lines, has_ended, frame, shown, footers,
                   lastWrite, input, sent, delivered, appended, preloaded, ticksAfterClose>>

\* no command and stdin is a terminal: Ok(ExitCode::SUCCESS), nothing is spawned
MainNothing ==
    /\ mainPc = "start"
    /\ mode = "tty"
    /\ exitCode' = Some(0)
    /\ mainPc' = "scope_end"
    /\ UNCHANGED <<mode, elapsed, stamp, receivedAtDraw, windowAtDraw,
                   opt_num_lines, termRows, CALLED, ROWS, pipe, closed,
                   child, status, readerPc, chan, senders, rxAlive, printPc,
                   num_lines, output_lines, has_ended, frame, shown, footers,
                   lastWrite, input, sent, delivered, appended, preloaded, ticksAfterClose>>

\* thread::scope returns once every scoped thread has finished; it panics when a
\* thread that was not joined by hand (the stdout reader) panicked.  A sender
\* and receiver never moved into a thread are dropped here.
MainScopeEnd ==
    /\ mainPc = "scope_end"
    /\ \A s \in StreamsOf(mode) : Finished(s)
    /\ printPc = "idle" \/ PrintFinished
    /\ mainPc' = IF mode = "command" /\ readerPc["stdout"] = "panicked"
                 THEN "panicked" ELSE "exited"
    /\ senders' = IF mode = "tty" THEN DropSender(senders) ELSE senders
    /\ rxAlive' = FALSE
    /\ UNCHANGED <<mode, elapsed, stamp, receivedAtDraw, windowAtDraw,
                   opt_num_lines, termRows, CALLED, ROWS, pipe, closed,
                   child, status, exitCode, readerPc, chan, printPc, num_lines,
                   output_lines, has_ended, frame, shown, footers, lastWrite,
                   input, sent, delivered, appended, preloaded, ticksAfterClose>>

----------------------------------------------------------------------------
(* The program *)

Writers == \E s \in Streams : CloseStream(s)
Reader(s) == ReaderSend(s) \/ ReaderError(s) \/ ReaderEof(s)
PrintLoop ==
    \/ PrintTop
    \/ PrintTryRecvOk
    \/ PrintDraw
    \/ PrintRecvOk
    \/ PrintRecvTimeout
    \/ PrintRecvDisconnected
Main ==
    \/ MainSpawnCommand
    \/ MainWait
    \/ MainJoinReader
    \/ MainJoinPrintCommand
    \/ MainSpawnPipe
    \/ MainJoinStdin
    \/ MainJoinPrintPipe
    \/ MainNothing
    \/ MainScopeEnd

Next ==
    \/ Writers
    \/ ChildExit
    \/ \E s \in Streams : Reader(s)
    \/ PrintLoop
    \/ Main

Spec == Init /\ [][Next]_vars

\* The writers of the streams, the readers and main take finitely many steps
\* each, and a step of theirs stays enabled until it is taken: the streams end
\* and the threads are scheduled as long as one of them can move.  The render
\* loop is scheduled as long as it has not returned.
Others == Writers \/ ChildExit \/ (\E s \in Streams : Reader(s)) \/ Main

FairInit ==
    Init /\ \A s \in Streams : Len(input[s]) <= MaxFairLines \/ input[s] \in BadInputs

FairSpec == FairInit /\ [][Next]_vars /\ WF_vars(Others) /\ WF_vars(PrintLoop)

\* the program on a terminal whose writes can fail
PanicNext == Next \/ PrintWriteFails
PanicSpec == FairInit /\ [][PanicNext]_vars

----------------------------------------------------------------------------
(* test::lines_with_errors: read on its own thread, the receiver dropped by the
   test's thread *)

\* the inputs of the reader: a Cursor over a non-empty text, or over bytes with
\* an undecodable line
TestInputs == (PipeInputs \ {<<>>}) \cup BadInputs

\* after thread::spawn(move || read(reader, tx)): the Cursor holds the whole
\* input and ends after it; the test's thread holds rx
TestInit ==
    /\ mode = "test"
    /\ opt_num_lines = None
    /\ termRows = None
    /\ CALLED = 0
    /\ ROWS = 0
    /\ \E inp \in TestInputs :
          /\ input = [s \in Streams |-> IF s = "stdin" THEN inp ELSE <<>>]
          /\ pipe = [s \in Streams |-> IF s = "stdin" THEN BytesOf(inp) ELSE <<>>]
    /\ closed = [s \in Streams |-> s = "stdin"]
    /\ child = "none"
    /\ mainPc = "drop_rx"
    /\ status = [code |-> None, success |-> FALSE]
    /\ exitCode = None
    /\ readerPc = [s \in Streams |-> IF s = "stdin" THEN "running" ELSE "idle"]
    /\ chan = <<>>
    /\ senders = 1
    /\ rxAlive = TRUE
    /\ printPc = "idle"
    /\ num_lines = 0
    /\ output_lines = <<>>
    /\ has_ended = FALSE
    /\ frame = NoFrame
    /\ shown = {}
    /\ footers = 0
    /\ lastWrite = "none"
    /\ sent = [s \in Streams |-> <<>>]
    /\ delivered = <<>>
    /\ appended = <<>>
    /\ preloaded = FALSE
    /\ ticksAfterClose = 0
    /\ receivedAtDraw = 0
    /\ windowAtDraw = 0
    /\ elapsed = 0
    /\ stamp = NoFrame

\* drop(rx)
TestDropReceiver ==
    /\ mainPc = "drop_rx"
    /\ rxAlive' = FALSE
    /\ mainPc' = "join"
    /\ UNCHANGED <<mode, elapsed, stamp, receivedAtDraw, windowAtDraw,
                   opt_num_lines, termRows, CALLED, ROWS, pipe, closed,
                   child, status, exitCode, readerPc, chan, senders, printPc,
                   num_lines, output_lines, has_ended, frame, shown, footers,
                   lastWrite, input, sent, delivered, appended, preloaded,
                   ticksAfterClose>>

\* handle.join().unwrap(): panics when the reader's thread panicked
TestJoin ==
    /\ mainPc = "join"
    /\ Finished("stdin")
    /\ mainPc' = IF readerPc["stdin"] = "panicked" THEN "panicked" ELSE "exited"
    /\ UNCHANGED <<mode, elapsed, stamp, receivedAtDraw, windowAtDraw,
                   opt_num_lines, termRows, CALLED, ROWS, pipe, closed,
                   child, status, exitCode, readerPc, chan, senders, rxAlive, printPc,
                   num_lines, output_lines, has_ended, frame, shown, footers,
                   lastWrite, input, sent, delivered, appended, preloaded,
                   ticksAfterClose>>

TestNext == Reader("stdin") \/ TestDropReceiver \/ TestJoin
TestSpec == TestInit /\ [][TestNext]_vars

----------------------------------------------------------------------------
(* The pure functions, applied by the render loop that calls them *)

\* pipe mode right after main spawned the reader and the render loop, nothing
\* written to stdin yet: print is at the top of its first iteration
PrintStarted ==
    /\ mode = "pipe"
    /\ CALLED = 0
    /\ ROWS = 0
    /\ input = [s \in Streams |-> <<>>]
    /\ pipe = [s \in Streams |-> <<>>]
    /\ closed = [s \in Streams |-> FALSE]
    /\ child = "none"
    /\ mainPc = "join_stdin"
    /\ status = [code |-> None, success |-> FALSE]
    /\ exitCode = None
    /\ readerPc = [s \in Streams |-> IF s = "stdin" THEN "running" ELSE "idle"]
    /\ chan = <<>>
    /\ senders = 1
    /\ rxAlive = TRUE
    /\ printPc = "top"
    /\ num_lines = 0
    /\ output_lines = <<>>
    /\ has_ended = FALSE
    /\ frame = NoFrame
    /\ shown = {}
    /\ footers = 0
    /\ lastWrite = "none"
    /\ sent = [s \in Streams |-> <<>>]
    /\ delivered = <<>>
    /\ appended = <<>>
    /\ preloaded = FALSE
    /\ ticksAfterClose = 0
    /\ receivedAtDraw = 0
    /\ windowAtDraw = 0
    /\ stamp = NoFrame

\* no --num-lines, and a terminal of any u16 number of rows
HeurInit ==
    /\ PrintStarted
    /\ opt_num_lines = None
    /\ \E rows \in 0..U16Max : termRows = Some(rows)
    /\ elapsed = 0

\* opt.num_lines() at the top of the loop calls num_lines_heuristic
HeurSpec == HeurInit /\ [][PrintTop]_vars

\* the clock readings: every second of the first MaxDays + 1 days, and the
\* longer runs of test::format_multiple_days and of 10 and 100 days
LongRuns == {200065, 10 * 86400 + 59, 100 * 86400 + 86399}
SecondsSet == 0..((MaxDays + 1) * 86400 - 1) \cup LongRuns

\* the render loop is first scheduled when the clock reads any of these
FormatInit ==
    /\ PrintStarted
    /\ opt_num_lines = None
    /\ termRows = None
    /\ elapsed \in SecondsSet

\* the first frame's header is written with Format(start.elapsed())
FormatNext == PrintTop \/ PrintDraw
FormatSpec == FormatInit /\ [][FormatNext]_vars

----------------------------------------------------------------------------
(* Properties *)

\* the last n elements of s (all of s when it is shorter)
LastN(s, n) == SubSeq(s, Len(s) - Min(n, Len(s)) + 1, Len(s))
\* the first n elements of s (all of s when it is shorter)
FirstN(s, n) == SubSeq(s, 1, Min(n, Len(s)))

\* C1: when the render loop has terminated, every line delivered to the channel
\* has been received, the Output Window holds exactly the last min(N, C) of the
\* N delivered lines in arrival order, and the last frame drawn (the footer
\* follows it) displays exactly the lines of the window.
C1_FinalWindowIsTail ==
    printPc = "done" =>
        /\ appended = delivered
        /\ output_lines = LastN(delivered, Min(Len(delivered), num_lines))
        /\ frame.some
        /\ frame.val = output_lines
        /\ lastWrite = "footer"

\* C1 witness: the loop ended after more lines than the capacity were
\* delivered, so lines were evicted (printf 'a\nb\nc\n' with capacity 2)
C1_Witness ==
    /\ printPc = "done"
    /\ num_lines = 2
    /\ Len(delivered) = 3
    /\ frame.val = SubSeq(delivered, 2, 3)

\* C2 as stated: every frame shows exactly the last min(k, C) of the k lines
\* received so far
C2_FrameShowsMostRecent ==
    (printPc = "recv" /\ frame.some) =>
        frame.val = LastN(appended, Min(Len(appended), num_lines))

\* C2 amended: the frame is drawn before the eviction.  On each tick the window
\* holds the most recent lines received, the frame displays the first
\* min(m, C) of the m lines of the window (its oldest lines), and only then is
\* the window evicted down to the last min(k, C) of the k lines received.
C2_FrameIsHeadOfWindow ==
    [][(printPc = "drain" /\ printPc' = "recv") =>
          /\ output_lines = LastN(appended, Len(output_lines))
          /\ frame'.val = FirstN(output_lines, num_lines)
          /\ output_lines' = LastN(appended, Min(Len(appended), num_lines))]_vars

\* C2 witness: a frame that shows an older line and omits a newer one that was
\* already received
C2_Witness ==
    /\ printPc = "recv"
    /\ num_lines = 1
    /\ Len(appended) = 2
    /\ frame.val = <<appended[1]>>
    /\ output_lines = <<appended[2]>>

\* the lines of seq that belong to stream s (the child's lines are all distinct)
StreamLines(seq, s) == SelectSeq(seq, LAMBDA l : l \in Range(LinesOf(input[s])))

\* C3: with the stdout reader and the stderr reader sending concurrently, when
\* the render loop has terminated the channel is empty and every line sent by
\* either reader has been appended to the Output Window exactly once.
C3_NoLineLostOrDuplicated ==
    (printPc = "done" /\ mode = "command") =>
        /\ chan = <<>>
        /\ Len(appended) = Len(sent["stdout"]) + Len(sent["stderr"])
        /\ \A s \in {"stdout", "stderr"} : \A i \in 1..Len(sent[s]) :
              Cardinality({j \in 1..Len(appended) : appended[j] = sent[s][i]}) = 1

\* C3 witness: the loop ended after both readers sent, the stderr line arriving
\* between the two stdout lines
C3_Witness ==
    /\ printPc = "done"
    /\ mode = "command"
    /\ Len(sent["stdout"]) = 2
    /\ Len(sent["stderr"]) = 1
    /\ Len(appended) = 3
    /\ appended[2] = sent["stderr"][1]

\* C4: under every interleaving the lines of one stream are appended to the
\* Output Window, and held by it, in the order in which that stream's reader
\* read them.
C4_StreamOrderKept ==
    mode = "command" =>
        \A s \in {"stdout", "stderr"} :
            /\ sent[s] = FirstN(LinesOf(input[s]), Len(sent[s]))
            /\ StreamLines(appended, s) = FirstN(sent[s], Len(StreamLines(appended, s)))
            /\ StreamLines(output_lines, s) =
                   LastN(StreamLines(appended, s), Len(StreamLines(output_lines, s)))

\* C4 witness: the window holds both stdout lines in order with the stderr line
\* between them
C4_Witness ==
    /\ mode = "command"
    /\ Len(output_lines) = 3
    /\ output_lines[1] = sent["stdout"][1]
    /\ output_lines[2] = sent["stderr"][1]
    /\ output_lines[3] = sent["stdout"][2]

\* C5: when every reader reaches end of stream after finitely many lines, the
\* render loop, once started, eventually terminates; it begins at most two
\* loop iterations after the channel is closed and drained; and it writes
\* exactly one footer, as its last write, after a frame.
C5_TerminatesWithOneFooter ==
    /\ (printPc # "idle") ~> (printPc = "done")
    /\ [](ticksAfterClose <= 2)
    /\ [](footers = IF printPc = "done" THEN 1 ELSE 0)
    /\ [](printPc = "done" => (lastWrite = "footer" /\ frame.some))

\* C5 witness: the loop has terminated after two iterations begun with the
\* channel closed and drained, with lines received before
C5_Witness ==
    /\ printPc = "done"
    /\ ticksAfterClose = 2
    /\ Len(appended) >= 2
    /\ footers = 1

\* C6: in command mode main produces its exit status only after the child has
\* exited, both readers have finished and the render loop has written its
\* footer; and the footer is written only after both readers have finished and
\* every line sent has been received from the channel.
C6_ShutdownOrder ==
    mode = "command" =>
        /\ exitCode.some =>
              /\ child = "exited"
              /\ readerPc["stdout"] = "done"
              /\ readerPc["stderr"] = "done"
              /\ footers = 1
        /\ footers > 0 =>
              /\ readerPc["stdout"] = "done"
              /\ readerPc["stderr"] = "done"
              /\ chan = <<>>
              /\ appended = delivered

\* C6 witness: command mode has exited after three lines went through
C6_Witness ==
    /\ mode = "command"
    /\ mainPc = "exited"
    /\ exitCode.some
    /\ Len(appended) = 3

\* C7: the program's exit code is the child's exit code when that is an integer
\* in 0..=255, and otherwise 0 when the child's success flag is set and 1 when
\* it is not.
C7_ExitStatusTranslation ==
    (mode = "command" /\ exitCode.some) =>
        /\ (status.code.some /\ status.code.val \in 0..255) =>
              exitCode.val = status.code.val
        /\ ~(status.code.some /\ status.code.val \in 0..255) =>
              /\ status.success => exitCode.val = 0
              /\ ~status.success => exitCode.val = 1

\* C7 witness: a child exit code outside 0..=255 became exit code 1
C7_Witness ==
    /\ mode = "command"
    /\ mainPc = "exited"
    /\ status.code.some
    /\ status.code.val > 255
    /\ exitCode.val = 1

\* C8: in pipe mode exactly one reader, on stdin, feeds the render loop, and
\* main returns exit code 0 only after the footer; a 0-byte input has an empty
\* frame drawn before the footer.  With stdin a terminal nothing is spawned, no
\* frame and no footer is written, and the exit code is 0.
C8_PipeMode ==
    /\ mode = "pipe" =>
          /\ child = "none"
          /\ readerPc["stdout"] = "idle"
          /\ readerPc["stderr"] = "idle"
          /\ (printPc # "idle") => readerPc["stdin"] # "idle"
          /\ appended = FirstN(sent["stdin"], Len(appended))
          /\ exitCode.some => (exitCode.val = 0 /\ footers = 1 /\ lastWrite = "footer")
          /\ (footers = 1 /\ input["stdin"] = <<>>) => (frame.some /\ frame.val = <<>>)
    /\ mode = "tty" =>
          /\ printPc = "idle"
          /\ \A s \in Streams : readerPc[s] = "idle"
          /\ ~frame.some
          /\ footers = 0
          /\ lastWrite = "none"
          /\ mainPc \in {"scope_end", "exited"} => (exitCode.some /\ exitCode.val = 0)

\* C8 witness: 0 bytes were piped in; an empty frame and the footer were
\* written and main exited with code 0
C8_Witness ==
    /\ mode = "pipe"
    /\ input["stdin"] = <<>>
    /\ mainPc = "exited"
    /\ frame.some
    /\ footers = 1
    /\ exitCode.val = 0

\* C9: for a byte stream made of lines L1..Ln, each ended by "\n" or "\r\n" (the
\* last one possibly by nothing), a reader sends L1..Ln in order with the
\* terminators stripped, and sends nothing for an empty stream.  (A line holds
\* no "\n"; a "\r" right before a "\n" is part of the terminator; a last line
\* without terminator is not empty; every line is UTF-8 text.)
C9_ReaderEmitsLines ==
    \A s \in Streams :
        /\ sent[s] = FirstN(LinesOf(input[s]), Len(sent[s]))
        /\ (readerPc[s] = "done" /\ Utf8(BytesOf(input[s]))) => sent[s] = LinesOf(input[s])
        /\ (readerPc[s] = "done" /\ input[s] = <<>>) => sent[s] = <<>>

\* C9 witness: stdin held a line ended by "\r\n" and a last line without
\* terminator, and its reader has sent both and finished
C9_Witness ==
    /\ readerPc["stdin"] = "done"
    /\ Len(input["stdin"]) = 2
    /\ input["stdin"][1].term = <<CR, LF>>
    /\ input["stdin"][2].term = <<>>
    /\ Len(sent["stdin"]) = 2

\* C10 as stated (for a capacity of at least 1): when more lines than the
\* capacity were queued and the channel closed before the loop began, every
\* queued line was drawn in some frame, and the footer is written
C10_EveryQueuedLineDrawn ==
    (printPc = "done" /\ preloaded /\ num_lines >= 1 /\ Len(appended) > num_lines) =>
        /\ Range(appended) \subseteq shown
        /\ footers = 1

\* C10 amended: when the N queued lines exceed the capacity C, the first frame
\* draws the first C of them and the next the last C; exactly these lines are
\* drawn (every queued line when N <= 2C, the lines between them never), and
\* the footer is written.
C10_FirstAndLastDrawn ==
    (printPc = "done" /\ preloaded /\ Len(appended) > num_lines) =>
        /\ shown = Range(FirstN(appended, num_lines)) \cup Range(LastN(appended, num_lines))
        /\ (Len(appended) <= 2 * num_lines) => Range(appended) \subseteq shown
        /\ footers = 1

\* C10 witness: three lines were queued for a capacity of 1 and the loop has
\* ended; the second line was never drawn
C10_Witness ==
    /\ printPc = "done"
    /\ preloaded
    /\ num_lines = 1
    /\ Len(appended) = 3
    /\ shown = {appended[1], appended[3]}

\* C11: num_lines_heuristic is weakly increasing over the u16 range: the
\* capacity derived from a terminal of rows rows is at least the capacity for
\* rows - 1 rows (so, step by step, at least the capacity for any smaller
\* terminal), and at least the capacity for each of the terminals of up to
\* MaxSmallRows rows that are smaller than it.
C11_HeuristicMonotone ==
    (printPc = "drain" /\ termRows.some) =>
        /\ termRows.val >= 1 => num_lines_heuristic(termRows.val - 1) <= num_lines
        /\ \A r1 \in 0..MaxSmallRows :
              r1 < termRows.val => num_lines_heuristic(r1) <= num_lines

\* C11 witness: the capacity was derived for a terminal of 11 rows, the first
\* row count of the second branch, and is no less than for 10 rows
C11_Witness ==
    /\ printPc = "drain"
    /\ termRows = Some(11)
    /\ num_lines = 6
    /\ num_lines_heuristic(10) = 6

\* v < 100 written with exactly two decimal digits
TwoDigits(v) == <<Digit(v \div 10), Digit(v % 10)>>

\* C12: for s whole seconds the elapsed-time text is HH:MM:SS with
\* SS = s mod 60, MM = (s div 60) mod 60, HH = (s div 3600) mod 24, each written
\* with two digits, and it is prefixed by "{d}d " with d = s div 86400 exactly
\* when s >= 86400.
C12_FormatElapsed ==
    stamp.some =>
        LET s   == elapsed
            hms == TwoDigits((s \div 3600) % 24) \o <<":">> \o
                   TwoDigits((s \div 60) % 60) \o <<":">> \o TwoDigits(s % 60)
        IN  /\ s >= 86400 => stamp.val = Decimal(s \div 86400) \o <<"d", " ">> \o hms
            /\ s < 86400 => stamp.val = hms

\* C12 witness: a header written after exactly one day reads "1d 00:00:00"
C12_Witness ==
    /\ elapsed = 86400
    /\ stamp = Some(<<"1", "d", " ", "0", "0", ":", "0", "0", ":", "0", "0">>)

\* C13 as stated: once the capacity of the run is known, the Output Window
\* never holds more lines than the capacity
C13_WindowNeverExceedsCapacity ==
    (printPc \in {"drain", "recv", "done"} \/ (printPc = "top" /\ lastWrite # "none")) =>
        Len(output_lines) <= num_lines

\* C13 amended: the window is cut down to the capacity once per tick, after the
\* frame is drawn, by evicting its oldest lines.  It holds at most C lines
\* while the loop waits in the timed receive and after the loop has ended, at
\* most C + 1 at the top of an iteration (a timed receive pushes one line
\* without evicting), and always the most recent lines received.
C13_WindowBoundedAfterEviction ==
    /\ printPc \in {"recv", "done"} => Len(output_lines) <= num_lines
    /\ (printPc = "top" /\ lastWrite # "none") => Len(output_lines) <= num_lines + 1
    /\ output_lines = LastN(appended, Len(output_lines))

\* C13 witness: three lines were received for a capacity of 2, one more than
\* the capacity was in the window when the frame was drawn, and the eviction
\* left the last two
C13_Witness ==
    /\ printPc = "recv"
    /\ num_lines = 2
    /\ receivedAtDraw = 3
    /\ output_lines = SubSeq(appended, 2, 3)

\* C14: the render loop terminates only at a closed-and-empty observation of
\* the channel made while has_ended is already set; has_ended is set only by an
\* earlier closed-and-empty observation, which sends the loop back to the top
\* instead of ending it, and is never cleared again; so the loop never ends on
\* its first such observation.  A timed receive that times out or returns a
\* line sends the loop back to the top.
C14_TwoStepTermination ==
    [][LET closedAndEmpty == printPc = "recv" /\ chan = <<>> /\ senders = 0
           observes       == printPc = "recv" /\ printPc' # "recv"
       IN  /\ (printPc # "done" /\ printPc' = "done") => (closedAndEmpty /\ has_ended)
           /\ (~has_ended /\ has_ended') => (closedAndEmpty /\ printPc' = "top")
           /\ has_ended => has_ended'
           /\ (observes /\ closedAndEmpty /\ ~has_ended) =>
                 (has_ended' /\ printPc' = "top" /\ footers' = footers)
           /\ (observes /\ closedAndEmpty /\ has_ended) => printPc' = "done"
           /\ (observes /\ ~closedAndEmpty) =>
                 (printPc' = "top" /\ has_ended' = has_ended)]_vars

\* C14 witness: after its first closed-and-empty observation the loop is back
\* at the top with has_ended set, not terminated, with lines received before
C14_Witness ==
    /\ printPc = "top"
    /\ has_ended
    /\ footers = 0
    /\ senders = 0
    /\ Len(appended) >= 1

\* C15: with every terminal write succeeding, the receiver is alive and the
\* render loop has not returned while any reader is still running, so every
\* send succeeds (each line read so far is in the channel's history) and no
\* reader, nor main, panics; and the render loop has returned only after every
\* sender was dropped, every reader having finished normally.
C15_ConsumerOutlivesProducers ==
    /\ \A s \in Streams :
          /\ readerPc[s] # "panicked"
          /\ readerPc[s] = "running" => (rxAlive /\ printPc \in {"top", "drain", "recv"})
    /\ mainPc # "panicked"
    /\ Len(delivered) = Len(sent["stdout"]) + Len(sent["stderr"]) + Len(sent["stdin"])
    /\ printPc = "done" =>
          /\ senders = 0
          /\ \A s \in StreamsOf(mode) : readerPc[s] = "done"

\* C15 witness: the stdout reader is still running, with a line sent and one
\* still to send, after the stderr reader has finished; the loop is waiting in
\* its timed receive
C15_Witness ==
    /\ mode = "command"
    /\ readerPc["stdout"] = "running"
    /\ readerPc["stderr"] = "done"
    /\ Len(sent["stdout"]) = 1
    /\ Len(input["stdout"]) = 2
    /\ printPc = "recv"
    /\ rxAlive

\* C16: the frame drawn on a tick holds at most num_lines lines, the capacity
\* that tick computed, however many lines were in the window when it was drawn.
C16_FrameAtMostCapacity ==
    (printPc = "recv" /\ frame.some) => Len(frame.val) <= num_lines

\* C16 witness: a burst of three lines reached the window before one draw with
\* a capacity of 2, and the frame holds two lines
C16_Witness ==
    /\ printPc = "recv"
    /\ num_lines = 2
    /\ receivedAtDraw = 3
    /\ frame = Some(SubSeq(appended, 1, 2))

\* C17 as stated: when no line was received since the previous frame, the
\* frame drawn shows the same lines as the previous frame
C17_FramesIdentical ==
    [][(printPc = "drain" /\ printPc' = "recv" /\ frame.some
            /\ receivedAtDraw = Len(appended)) =>
          frame'.val = frame.val]_vars

\* C17 amended: when no line was received since the previous frame, the frame
\* drawn shows the window as the previous tick's eviction left it, the last
\* min(k, C) of the k lines received, and leaves the window as it is.  It
\* repeats the previous frame when that frame was drawn from a window of at
\* most C lines; when the window held m > C lines, the previous frame showed
\* the first C of them and this one shows the last C.
C17_FrameRepeatsEvictedWindow ==
    [][(printPc = "drain" /\ printPc' = "recv" /\ frame.some
            /\ receivedAtDraw = Len(appended)) =>
          /\ frame'.val = output_lines
          /\ output_lines' = output_lines
          /\ frame'.val = LastN(appended, Min(Len(appended), num_lines))
          /\ windowAtDraw <= num_lines => frame'.val = frame.val
          /\ windowAtDraw > num_lines =>
                /\ frame.val = FirstN(LastN(appended, windowAtDraw), num_lines)
                /\ frame'.val = LastN(LastN(appended, windowAtDraw), num_lines)]_vars

\* C17 witness: two lines were drained before a frame drawn with capacity 1,
\* which showed the first; no line came after it, and the next frame, just
\* drawn, shows the second
C17_Witness ==
    /\ printPc = "recv"
    /\ num_lines = 1
    /\ Len(appended) = 2
    /\ receivedAtDraw = 2
    /\ windowAtDraw = 1
    /\ frame = Some(<<appended[2]>>)
    /\ shown = {appended[1], appended[2]}
    /\ appended[1] # appended[2]

\* the index of the first line of ls that is not UTF-8, 0 when there is none
ErrorAt(ls) ==
    IF \E i \in 1..Len(ls) : ~Utf8(ls[i].content)
    THEN CHOOSE i \in 1..Len(ls) :
            ~Utf8(ls[i].content) /\ \A j \in 1..(i - 1) : Utf8(ls[j].content)
    ELSE 0
\* the lines of ls before its first undecodable line
LinesBeforeError(ls) == LinesOf(SubSeq(ls, 1, ErrorAt(ls) - 1))

\* C18: when the stream on stdin holds a line that cannot be decoded, the
\* reader never panics; it sends the lines before that line in order and no
\* other line, all of them once it has stopped; the render loop, once started,
\* eventually terminates, after the reader has dropped its sender, with
\* exactly those lines (the last C of them) in the window and in the last
\* frame; and main returns without an error (exit code 0).
C18_ReadErrorStopsReader ==
    /\ [](ErrorAt(input["stdin"]) # 0 =>
            LET before == LinesBeforeError(input["stdin"])
            IN  /\ readerPc["stdin"] # "panicked"
                /\ mainPc # "panicked"
                /\ sent["stdin"] = FirstN(before, Len(sent["stdin"]))
                /\ readerPc["stdin"] = "done" => sent["stdin"] = before
                /\ printPc = "done" =>
                      /\ readerPc["stdin"] = "done"
                      /\ senders = 0
                      /\ output_lines = LastN(before, Min(Len(before), num_lines))
                      /\ frame = Some(output_lines)
                /\ exitCode.some => exitCode.val = 0)
    /\ (ErrorAt(input["stdin"]) # 0 /\ printPc # "idle") ~> (printPc = "done")

\* C18 witness: stdin held a line, an undecodable line and a third line; the
\* reader stopped with the third line unread, and the loop has ended with the
\* first line in the window
C18_Witness ==
    /\ ErrorAt(input["stdin"]) = 2
    /\ Len(input["stdin"]) = 3
    /\ readerPc["stdin"] = "done"
    /\ pipe["stdin"] # <<>>
    /\ printPc = "done"
    /\ num_lines >= 1
    /\ output_lines = <<input["stdin"][1].content>>

\* C19: in command mode, when a reader thread has panicked and main has
\* finished, main has returned (it did not panic) and its exit code is the
\* child's translated exit status.
C19_ReaderPanicTolerated ==
    (mode = "command" /\ mainPc \in {"exited", "panicked"}
        /\ (readerPc["stdout"] = "panicked" \/ readerPc["stderr"] = "panicked")) =>
        /\ mainPc = "exited"
        /\ exitCode = Some(ExitCodeOf(status))

\* C19 witness: the stderr reader, whose handle main joins, panicked, and main
\* returned the translated status
C19_Witness ==
    /\ mode = "command"
    /\ readerPc["stderr"] = "panicked"
    /\ readerPc["stdout"] = "done"
    /\ mainPc = "exited"
    /\ exitCode = Some(ExitCodeOf(status))

\* C20: a reader started on its own thread with a non-empty text, whose
\* receiver is dropped by the test's thread without receiving, never completes
\* normally: once the receiver is dropped and the reader has finished, the
\* reader has panicked.
C20_ReaderAlwaysPanics ==
    (mode = "test" /\ input["stdin"] # <<>> /\ Utf8(BytesOf(input["stdin"]))
        /\ ~rxAlive /\ Finished("stdin")) =>
        readerPc["stdin"] = "panicked"

\* C20 witness: the receiver was dropped before the reader's first send; the
\* reader panicked and handle.join().unwrap() panicked in turn
C20_Witness ==
    /\ mode = "test"
    /\ Len(input["stdin"]) = 2
    /\ ~rxAlive
    /\ sent["stdin"] = <<>>
    /\ readerPc["stdin"] = "panicked"
    /\ mainPc = "panicked"

====
